---------------------------- MODULE Spec2Model ----------------------------
(***************************************************************************)
(* A model of arxiv_scraper.py: the weekly arXiv report pipeline            *)
(*   main: start_end_dates -> retrieve_arxiv_data -> markdown_text ->       *)
(*         (reddit_authorize -> reddit_submit_post) -> write the file.      *)
(*                                                                         *)
(* Python strings are sequences of character codes, compared as Python     *)
(* compares str values (code point by code point, a proper prefix first).  *)
(* Dates are Python date ordinals; an ISO date string is what isoformat()  *)
(* prints for the ordinal.                                                 *)
(*                                                                         *)
(* Python evaluates an argument once, before the call. Where an operator   *)
(* reads an argument many times, the argument's value is bound first, as   *)
(* CHOOSE r \in {F(v) : v \in {argument}} : TRUE, which is F(argument).    *)
(***************************************************************************)
EXTENDS Integers, Sequences, FiniteSets, TLC

(***************************************************************************)
(* Bounds of the model.                                                    *)
(***************************************************************************)
\* longest run of spaces inside the texts given to clean_wrapped_text
MaxRun == 17
\* most newlines in front of that run
MaxNewlines == 2
\* most spaces in front of and behind the text
MaxPad == 1

(***************************************************************************)
(* Characters (code points) and strings.                                   *)
(***************************************************************************)
\* ' ' at line 14 and 16
SP == 32
\* '\n' at line 14
NL == 10
\* '-' as date.isoformat() prints it
DASH == 45
\* '0', the first digit
ZERO == 48
\* two words
WordA == <<97>>
WordB == <<98>>

\* the characters str.strip() removes: Python's whitespace below code 128
Whitespace == {9, 10, 11, 12, 13, 28, 29, 30, 31, 32}

RECURSIVE Rep(_, _)
\* c * n, the character c repeated n times
Rep(c, n) == IF n = 0 THEN <<>> ELSE <<c>> \o Rep(c, n - 1)

RECURSIVE ReplaceFrom(_, _, _)
\* the scan of str.replace over the rest s of the string: every
\* non-overlapping occurrence of old, leftmost first
ReplaceFrom(s, old, new) ==
    IF Len(s) < Len(old) THEN s
    ELSE IF SubSeq(s, 1, Len(old)) = old
         THEN new \o ReplaceFrom(SubSeq(s, Len(old) + 1, Len(s)), old, new)
         ELSE <<Head(s)>> \o ReplaceFrom(Tail(s), old, new)

\* s.replace(old, new)
StrReplace(s, old, new) ==
    CHOOSE r \in {ReplaceFrom(v, old, new) : v \in {s}} : TRUE

RECURSIVE LStrip(_)
LStrip(s) == IF s # <<>> /\ Head(s) \in Whitespace THEN LStrip(Tail(s)) ELSE s

RECURSIVE RStrip(_)
RStrip(s) ==
    IF s # <<>> /\ s[Len(s)] \in Whitespace
    THEN RStrip(SubSeq(s, 1, Len(s) - 1)) ELSE s

\* s.strip()
StrStrip(s) == CHOOSE r \in {RStrip(LStrip(v)) : v \in {s}} : TRUE

RECURSIVE StrLess(_, _)
\* a < b on Python str values
StrLess(a, b) ==
    IF b = <<>> THEN FALSE
    ELSE IF a = <<>> THEN TRUE
    ELSE IF Head(a) # Head(b) THEN Head(a) < Head(b)
    ELSE StrLess(Tail(a), Tail(b))

\* a <= b on Python str values
StrLeq(a, b) == ~StrLess(b, a)

\* the number of passes of the loop "for _ in range(4)"
CollapsePasses == 4

RECURSIVE CollapseSpaces(_, _)
\* lines 15-16: n times output = output.replace('  ', ' ')
CollapseSpaces(output, n) ==
    IF n = 0 THEN output
    ELSE CollapseSpaces(StrReplace(output, <<SP, SP>>, <<SP>>), n - 1)

\* lines 12-17
clean_wrapped_text(text) ==
    StrStrip(CollapseSpaces(StrReplace(text, <<NL>>, <<SP>>), CollapsePasses))


(***************************************************************************)
(* datetime.date, as far as lines 21-23 use it: ordinals, weekday(),       *)
(* subtraction of a timedelta, isoformat().                                *)
(***************************************************************************)
IsLeap(y) == y % 4 = 0 /\ (y % 100 # 0 \/ y % 400 = 0)

DaysInMonth(y, m) ==
    IF m = 2 THEN (IF IsLeap(y) THEN 29 ELSE 28)
    ELSE IF m \in {4, 6, 9, 11} THEN 30 ELSE 31

DaysBeforeYear(y) ==
    (y - 1) * 365 + ((y - 1) \div 4) - ((y - 1) \div 100) + ((y - 1) \div 400)

RECURSIVE DaysBeforeMonth(_, _)
DaysBeforeMonth(y, m) ==
    IF m = 1 THEN 0 ELSE DaysBeforeMonth(y, m - 1) + DaysInMonth(y, m - 1)

\* date(y, m, d).toordinal()
ToOrdinal(y, m, d) == DaysBeforeYear(y) + DaysBeforeMonth(y, m) + d

\* the years the model's dates lie in
Years == 2023..2024

\* date.fromordinal(n), for a date of Years: the year and the month whose
\* days hold the ordinal, and the day in that month
FromOrdinal(n) ==
    CHOOSE d \in {[year |-> y, month |-> m,
                   day |-> n - DaysBeforeYear(y) - DaysBeforeMonth(y, m)] :
                     y \in Years, m \in 1..12} :
        1 <= d.day /\ d.day <= DaysInMonth(d.year, d.month)

\* date.weekday(): Monday is 0, Sunday is 6
Weekday(n) == (n + 6) % 7

RECURSIVE Digits(_, _)
\* "%0<width>d" % v
Digits(v, width) ==
    IF width = 0 THEN <<>>
    ELSE Digits(v \div 10, width - 1) \o <<ZERO + (v % 10)>>

\* date.isoformat(): YYYY-MM-DD
IsoFormat(n) ==
    CHOOSE r \in
        {Digits(d.year, 4) \o <<DASH>> \o Digits(d.month, 2) \o <<DASH>>
             \o Digits(d.day, 2) : d \in {FromOrdinal(n)}} : TRUE

\* lines 19-26. The clock is read twice on line 21: today1 by the first
\* date.today(), today2 by the second.
start_end_dates(today1, today2) ==
    LET end_date == today1 - (Weekday(today2) + 1)
        start_date == IsoFormat(end_date - 6)
    IN  <<start_date, IsoFormat(end_date)>>

(***************************************************************************)
(* More bounds.                                                            *)
(***************************************************************************)
\* most entries in the feed the search API serves
MaxFeed == 3
\* per_page: entries per request (main passes 100 on line 156)
PerPage == 2
\* most papers in a list given to markdown_text directly
MaxPapers == 3

(***************************************************************************)
(* Values.                                                                 *)
(***************************************************************************)
\* Python's None where a str may stand: the one-character NUL string, which
\* no command line argument can be
NoneStr == <<0>>

\* the days the model's papers are updated on: the Sunday before the week
\* 2024-01-01 .. 2024-01-07, its Monday, its Sunday, and the Monday after
FeedDays ==
    {ToOrdinal(2023, 12, 31), ToOrdinal(2024, 1, 1),
     ToOrdinal(2024, 1, 7), ToOrdinal(2024, 1, 8)}

\* the days the job may run on when the date flags are absent
Todays == ToOrdinal(2024, 1, 8)..ToOrdinal(2024, 1, 14)

\* --arxiv_start_date, --arxiv_end_date: absent, or ISO dates
DateFlags ==
    {<<NoneStr, NoneStr>>}
    \cup {<<IsoFormat(a), NoneStr>> : a \in {ToOrdinal(2024, 1, 1)}}
    \cup {<<IsoFormat(a), IsoFormat(b)>> :
             a \in {ToOrdinal(2024, 1, 1), ToOrdinal(2024, 1, 7)},
             b \in {ToOrdinal(2024, 1, 7), ToOrdinal(2024, 1, 8)}}

\* the time part of an <updated> or <published> text, which [:10] cuts off
TimePart == <<84>>

\* primary_category term and category terms of an entry
EntryCategories ==
    {[primary |-> "q-fin.PR", category |-> {"q-fin.PR", "stat.ML"}],
     [primary |-> "cs.LG", category |-> {}]}

\* target_categories
TargetSets == {{"stat.ML", "q-fin.CP"}, {"cs.LG"}}

\* the six fields of reddit_data, lines 194-201
RedditFields ==
    {"app_name", "app_id", "app_secret", "user_name", "user_password",
     "subreddit"}

\* a value given to a flag
SomeStr == WordA

\* reddit_data as the command line can make it: every flag given, one flag
\* absent (None), or one flag given as the empty string
RedditInputs ==
    {[f \in RedditFields |-> SomeStr]}
    \cup {[f \in RedditFields |-> IF f = g THEN NoneStr ELSE SomeStr] :
             g \in RedditFields}
    \cup {[f \in RedditFields |-> IF f = g THEN <<>> ELSE SomeStr] :
             g \in RedditFields}

\* an <entry> of the feed; its title is its position in the feed
Entry(k, upd, pub, c) ==
    [title |-> k,
     updated |-> IsoFormat(upd) \o TimePart,
     published |-> IsoFormat(pub) \o TimePart,
     primary |-> c.primary,
     category |-> c.category]

\* the feeds the API may serve: sortBy=lastUpdatedDate, sortOrder=descending
Feeds ==
    UNION {
      {[k \in 1..n |-> Entry(k, f[k][1], f[k][1], f[k][2])] :
          f \in {g \in [1..n -> FeedDays \X EntryCategories] :
                    \A k \in 1..(n - 1) : g[k][1] >= g[k + 1][1]}}
      : n \in 0..MaxFeed}

\* the entries of page i: start = i * per_page, max_results = per_page
Page(feed, i) ==
    SubSeq(feed, i * PerPage + 1,
           IF (i + 1) * PerPage < Len(feed) THEN (i + 1) * PerPage
           ELSE Len(feed))

(***************************************************************************)
(* retrieve_arxiv_data, lines 51-65: the records of a parsed page.         *)
(***************************************************************************)
\* lines 52-55
Cats(x) == {x.primary} \cup x.category

\* line 56
Matches(target_categories, x) == (target_categories \cap Cats(x)) # {}

\* lines 57-65 (authors, summary and pdf link go with the title)
Record(x) ==
    [Title |-> x.title,
     Updated |-> clean_wrapped_text(SubSeq(x.updated, 1, 10)),
     Published |-> clean_wrapped_text(SubSeq(x.published, 1, 10)),
     Categories |-> Cats(x)]

RECURSIVE PageRecords(_, _)
\* lines 51-65: the loop over the entries of a page
PageRecords(target_categories, entries) ==
    IF entries = <<>> THEN <<>>
    ELSE (IF Matches(target_categories, Head(entries))
          THEN <<Record(Head(entries))>> ELSE <<>>)
         \o PageRecords(target_categories, Tail(entries))

\* a slip in line 66: <= for <
BreakCondition_OrEqual(papers, start_date) ==
    StrLeq(papers[Len(papers)].Updated, start_date)

\* line 66: arxiv_papers[-1]['Updated'] < start_date
BreakCondition(papers, start_date) ==
    StrLess(papers[Len(papers)].Updated, start_date)

(***************************************************************************)
(* markdown_text, lines 73-100.                                            *)
(***************************************************************************)
RECURSIVE InsertByPublished(_, _)
\* p goes in front of the first paper published before it
InsertByPublished(sorted, p) ==
    IF sorted = <<>> THEN <<p>>
    ELSE IF StrLess(Head(sorted).Published, p.Published)
         THEN <<p>> \o sorted
         ELSE <<Head(sorted)>> \o InsertByPublished(Tail(sorted), p)

RECURSIVE InsertAscending(_, _)
InsertAscending(sorted, p) ==
    IF sorted = <<>> THEN <<p>>
    ELSE IF StrLess(p.Published, Head(sorted).Published)
         THEN <<p>> \o sorted
         ELSE <<Head(sorted)>> \o InsertAscending(Tail(sorted), p)

RECURSIVE SortedByPublished_NoReverse(_)
\* a slip in line 89: reverse=True left out
SortedByPublished_NoReverse(papers) ==
    IF papers = <<>> THEN <<>>
    ELSE InsertAscending(
             SortedByPublished_NoReverse(SubSeq(papers, 1, Len(papers) - 1)),
             papers[Len(papers)])

RECURSIVE SortedByPublished(_)
\* line 89: sorted(arxiv_papers, key=lambda d: d['Published'], reverse=True),
\* a stable sort
SortedByPublished(papers) ==
    IF papers = <<>> THEN <<>>
    ELSE CHOOSE r \in
             {InsertByPublished(v, papers[Len(papers)]) :
                 v \in {SortedByPublished(SubSeq(papers, 1, Len(papers) - 1))}}
             : TRUE

\* a slip in line 90: end_date >= for end_date >
InWindow_Closed(paper, start_date, end_date) ==
    StrLeq(start_date, paper.Updated) /\ StrLeq(paper.Updated, end_date)

\* line 90
InWindow(paper, start_date, end_date) ==
    StrLeq(start_date, paper.Updated) /\ StrLess(paper.Updated, end_date)

\* lines 92-98: the seven lines of a paper
PaperLines(paper) ==
    <<[tag |-> "### ", val |-> paper.Title],
      [tag |-> "**Authors**: ", val |-> paper.Title],
      [tag |-> "**Categories**: ", val |-> paper.Categories],
      [tag |-> "**PDF**: ", val |-> paper.Title],
      [tag |-> "**Dates**: ", val |-> <<paper.Published, paper.Updated>>],
      [tag |-> "**Summary**: ", val |-> paper.Title],
      [tag |-> "", val |-> 0]>>

RECURSIVE RenderPapers(_, _, _)
\* lines 89-98
RenderPapers(sorted, start_date, end_date) ==
    IF sorted = <<>> THEN <<>>
    ELSE (IF InWindow(Head(sorted), start_date, end_date)
          THEN PaperLines(Head(sorted)) ELSE <<>>)
         \o RenderPapers(Tail(sorted), start_date, end_date)

\* lines 83-86: the title line and the two paragraphs in front of the papers
Preamble(start_date, end_date) ==
    <<[tag |-> "# ", val |-> <<start_date, end_date>>],
      [tag |-> "This is your weekly snap", val |-> 0],
      [tag |-> "If any paper take your fancy", val |-> 0]>>

\* lines 73-100: title and text
markdown_text(arxiv_papers, start_date, end_date) ==
    [title |-> <<"Quant Finance Arxiv submissions ", start_date, " - ",
                 end_date>>,
     text |-> Preamble(start_date, end_date)
              \o (CHOOSE r \in
                     {RenderPapers(v, start_date, end_date) :
                         v \in {SortedByPublished(arxiv_papers)}} : TRUE)]

\* a slip in line 173: the window's start left out of the name
FileName_EndOnly(start_date, end_date) ==
    <<"arxiv_submissions_", end_date, ".md">>

\* line 173
FileName(start_date, end_date) ==
    <<"arxiv_submissions_", start_date, "_", end_date, ".md">>

\* res.raise_for_status() raises for a 4xx or 5xx status
RaisesForStatus(status) == 400 <= status /\ status < 600

\* line 160
AllGiven(reddit_data) == \A f \in RedditFields : reddit_data[f] # NoneStr

(***************************************************************************)
(* The state of a run.                                                     *)
(***************************************************************************)
VARIABLES
    pc,                \* where the run is
    feed,              \* what the search API holds (sorted, see Feeds)
    target_categories, \* main's argument
    reddit_data,       \* main's argument, as line 160 reads it
    start_date,        \* main's argument, then the window's start
    end_date,          \* main's argument, then the window's end
    today,             \* the days the two date.today() of line 21 returned
                       \* (0: not read)
    i,                 \* line 36: the batch counter
    response,          \* line 41: the last response of the search API
    arxiv_papers,      \* line 35
    post,              \* line 158: post_title and post_text
    headers,           \* line 161: reddit_headers
    file,              \* lines 175-176: the file written
    err,               \* the exception that ended the run ("" for none)
    nonSuccess,        \* history: a response with a non-2xx status was received
    irregular,         \* history: a fetch was not answered 2xx with the feed's page
    stopSeen,          \* history: a parsed page's own last entry was updated
                       \*          before start_date
    tokenPosts,        \* history: POSTs to the token endpoint
    submitPosts,       \* history: POSTs to the submit endpoint
    text,              \* the argument of a clean_wrapped_text call
    output             \* its result

vars ==
    <<pc, feed, target_categories, reddit_data, start_date, end_date, today,
      i, response, arxiv_papers, post, headers, file, err, nonSuccess,
      irregular, stopSeen, tokenPosts, submitPosts, text, output>>

NoResponse == [status |-> 0, wellformed |-> FALSE, entries |-> <<>>]
NoPost == [title |-> <<>>, text |-> <<>>]
NoFile == [name |-> <<>>, content |-> <<>>]

\* the variables of the text clean-up, while the pipeline runs
TextIdle == text = <<>> /\ output = <<>>

\* the pipeline before its first step
MainStart ==
    /\ today = <<0, 0>>
    /\ i = 0
    /\ response = NoResponse
    /\ arxiv_papers = <<>>
    /\ post = NoPost
    /\ headers = "none"
    /\ file = NoFile
    /\ err = ""
    /\ nonSuccess = FALSE
    /\ irregular = FALSE
    /\ stopSeen = FALSE
    /\ tokenPosts = 0
    /\ submitPosts = 0

\* reddit_data before main reads it
Unread == [f \in RedditFields |-> NoneStr]

\* line 206: main is called with the parsed command line. reddit_data is
\* read on line 160 only, and the value the command line gave it is drawn
\* there.
Init ==
    /\ pc = "main"
    /\ feed \in Feeds
    /\ target_categories \in TargetSets
    /\ reddit_data = Unread
    /\ \E d \in DateFlags : start_date = d[1] /\ end_date = d[2]
    /\ MainStart
    /\ TextIdle

\* an exception leaves main: the process ends
Abort(e) == pc' = "aborted" /\ err' = e

\* lines 152-154
MainDates ==
    /\ pc = "main"
    /\ pc' = "request"
    /\ IF start_date = NoneStr \/ end_date = NoneStr
       THEN \E today1 \in Todays : \E today2 \in {today1, today1 + 1} :
            \E dates \in {start_end_dates(today1, today2)} :
               /\ today' = <<today1, today2>>
               /\ start_date' = dates[1]
               /\ end_date' = dates[2]
       ELSE UNCHANGED <<today, start_date, end_date>>
    /\ UNCHANGED <<feed, target_categories, reddit_data, i, response,
                   arxiv_papers, post, headers, file, err, nonSuccess,
                   irregular, stopSeen, tokenPosts, submitPosts, text, output>>

\* what requests.get may return for batch i: the feed's page with a 2xx
\* status, or a non-2xx status with a body that is an empty feed or is not XML
FetchResponses ==
    {[status |-> 200, wellformed |-> TRUE, entries |-> Page(feed, i)],
     [status |-> 500, wellformed |-> TRUE, entries |-> <<>>],
     [status |-> 500, wellformed |-> FALSE, entries |-> <<>>]}

\* the batch counter after line 48. Every batch past the end of the feed is
\* the same empty page, so the counter is kept at the first of them.
NextBatch == IF i * PerPage >= Len(feed) THEN i ELSE i + 1

\* lines 41-48: one request of the loop
FetchRequest ==
    /\ pc = "request"
    /\ \/ /\ Abort("ConnectionError")
          /\ irregular' = TRUE
          /\ UNCHANGED <<i, response, nonSuccess>>
       \/ \E r \in FetchResponses :
             /\ response' = r
             /\ i' = NextBatch
             /\ nonSuccess' = (nonSuccess \/ r.status # 200)
             /\ irregular' = (irregular \/ r.status # 200)
             /\ pc' = "parse"
             /\ err' = err
    /\ UNCHANGED <<feed, target_categories, reddit_data, start_date, end_date,
                   today, arxiv_papers, post, headers, file, stopSeen,
                   tokenPosts, submitPosts, text, output>>

\* lines 49-70: the response is parsed, its matching entries are appended, and
\* the last accumulated record decides whether the loop goes on. The result:
\* the list, where the run goes next, and the exception raised ("": none).
ParsedPage(papers_before, r, target, start) ==
    IF ~r.wellformed
    THEN [papers |-> papers_before, pc |-> "aborted", err |-> "XMLSyntaxError"]
    ELSE CHOOSE result \in
        {IF papers = <<>>
         THEN [papers |-> papers, pc |-> "aborted", err |-> "IndexError"]
         ELSE IF BreakCondition(papers, start)
         THEN [papers |-> papers, pc |-> "format", err |-> ""]
         ELSE [papers |-> papers, pc |-> "request", err |-> ""] :
            papers \in {papers_before \o PageRecords(target, r.entries)}}
        : TRUE

\* the last entry of the parsed page is updated before start_date
PageEndsBeforeStart(r, start) ==
    /\ r.wellformed
    /\ r.entries # <<>>
    /\ StrLess(Record(r.entries[Len(r.entries)]).Updated, start)

\* lines 49-70: the rest of a pass of the loop
FetchParse ==
    /\ pc = "parse"
    /\ \E parsed \in {ParsedPage(arxiv_papers, response, target_categories,
                                 start_date)} :
          /\ arxiv_papers' = parsed.papers
          /\ pc' = parsed.pc
          /\ err' = parsed.err
    /\ stopSeen' = (stopSeen \/ PageEndsBeforeStart(response, start_date))
    /\ UNCHANGED <<feed, target_categories, reddit_data, start_date, end_date,
                   today, i, response, post, headers, file, nonSuccess,
                   irregular, tokenPosts, submitPosts, text, output>>

\* line 158
Format ==
    /\ pc = "format"
    /\ post' = markdown_text(arxiv_papers, start_date, end_date)
    /\ pc' = "activate"
    /\ UNCHANGED <<feed, target_categories, reddit_data, start_date, end_date,
                   today, i, response, arxiv_papers, headers, file, err,
                   nonSuccess, irregular, stopSeen, tokenPosts, submitPosts,
                   text, output>>

\* lines 160, 170-171
Activate ==
    /\ pc = "activate"
    /\ \E given \in RedditInputs :
          /\ reddit_data' = given
          /\ pc' = IF AllGiven(given) THEN "authorize" ELSE "write"
    /\ UNCHANGED <<feed, target_categories, start_date, end_date,
                   today, i, response, arxiv_papers, post, headers, file, err,
                   nonSuccess, irregular, stopSeen, tokenPosts, submitPosts,
                   text, output>>

\* lines 102-127: the token exchange. The response has a status and a body
\* that holds an access_token or does not.
reddit_authorize ==
    /\ pc = "authorize"
    /\ tokenPosts' = tokenPosts + 1
    /\ \/ Abort("ConnectionError") /\ UNCHANGED <<headers, nonSuccess>>
       \/ \E status \in {200, 304, 403}, has_token \in BOOLEAN :
             /\ nonSuccess' = (nonSuccess \/ status # 200)
             /\ IF RaisesForStatus(status)
                THEN Abort("HTTPError") /\ UNCHANGED headers
                ELSE IF ~has_token
                THEN Abort("KeyError") /\ UNCHANGED headers
                ELSE headers' = "bearer" /\ pc' = "submit" /\ err' = err
    /\ UNCHANGED <<feed, target_categories, reddit_data, start_date, end_date,
                   today, i, response, arxiv_papers, post, file, irregular,
                   stopSeen, submitPosts, text, output>>

\* lines 129-144: the post submission
reddit_submit_post ==
    /\ pc = "submit"
    /\ submitPosts' = submitPosts + 1
    /\ \/ Abort("ConnectionError") /\ UNCHANGED nonSuccess
       \/ \E status \in {200, 304, 500} :
             /\ nonSuccess' = (nonSuccess \/ status # 200)
             /\ IF RaisesForStatus(status)
                THEN Abort("HTTPError")
                ELSE pc' = "write" /\ err' = err
    /\ UNCHANGED <<feed, target_categories, reddit_data, start_date, end_date,
                   today, i, response, arxiv_papers, post, headers, file,
                   irregular, stopSeen, tokenPosts, text, output>>

\* lines 173-176
WriteFile ==
    /\ pc = "write"
    /\ file' = [name |-> FileName(start_date, end_date),
                content |-> post.text]
    /\ pc' = "done"
    /\ UNCHANGED <<feed, target_categories, reddit_data, start_date, end_date,
                   today, i, response, arxiv_papers, post, headers, err,
                   nonSuccess, irregular, stopSeen, tokenPosts, submitPosts,
                   text, output>>

\* lines 146-176
Next ==
    \/ MainDates
    \/ FetchRequest
    \/ FetchParse
    \/ Format
    \/ Activate
    \/ reddit_authorize
    \/ reddit_submit_post
    \/ WriteFile

Spec == Init /\ [][Next]_vars

\* the run is one sequential process: while a step is possible, it is taken
FairSpec == Spec /\ WF_vars(Next)

(***************************************************************************)
(* clean_wrapped_text on its own: a text is drawn and cleaned.             *)
(***************************************************************************)
\* the texts: spaces, a word, newlines, a run of spaces, a word, spaces
Texts ==
    {Rep(SP, l) \o WordA \o Rep(NL, j) \o Rep(SP, k) \o WordB \o Rep(SP, t) :
        l \in 0..MaxPad, j \in 0..MaxNewlines, k \in 0..MaxRun, t \in 0..MaxPad}

\* the pipeline's variables, while a function is checked on its own
MainIdle ==
    /\ feed = <<>>
    /\ target_categories = {}
    /\ reddit_data = Unread
    /\ start_date = NoneStr
    /\ end_date = NoneStr
    /\ MainStart

InitText ==
    /\ pc = "clean"
    /\ text \in Texts
    /\ output = <<>>
    /\ MainIdle

\* a call of clean_wrapped_text, lines 12-17
Clean ==
    /\ pc = "clean"
    /\ output' = clean_wrapped_text(text)
    /\ pc' = "cleaned"
    /\ UNCHANGED <<feed, target_categories, reddit_data, start_date, end_date,
                   today, i, response, arxiv_papers, post, headers, file, err,
                   nonSuccess, irregular, stopSeen, tokenPosts, submitPosts,
                   text>>

SpecText == InitText /\ [][Clean]_vars

(***************************************************************************)
(* markdown_text on its own: a list of papers and a window are drawn.      *)
(***************************************************************************)
\* a paper of a list: its title is its position in the list
Paper(k, upd, pub) ==
    [Title |-> k, Updated |-> IsoFormat(upd), Published |-> IsoFormat(pub),
     Categories |-> {"q-fin.PR"}]

\* updated and published day of a paper: published_date <= updated_date
PaperDays == {d \in FeedDays \X FeedDays : d[2] <= d[1]}

\* the lists of papers, in any order
PaperLists ==
    UNION {{[k \in 1..n |-> Paper(k, f[k][1], f[k][2])] :
               f \in [1..n -> PaperDays]} : n \in 0..MaxPapers}

\* the windows start_date, end_date given to markdown_text
Windows ==
    {<<IsoFormat(ToOrdinal(2024, 1, 1)), IsoFormat(ToOrdinal(2024, 1, 8))>>,
     <<IsoFormat(ToOrdinal(2024, 1, 1)), IsoFormat(ToOrdinal(2024, 1, 7))>>,
     <<IsoFormat(ToOrdinal(2023, 12, 31)), IsoFormat(ToOrdinal(2024, 1, 8))>>}

InitFormat ==
    /\ pc = "format"
    /\ feed = <<>>
    /\ target_categories = {}
    /\ reddit_data = Unread
    /\ \E w \in Windows : start_date = w[1] /\ end_date = w[2]
    /\ today = <<0, 0>>
    /\ i = 0
    /\ response = NoResponse
    /\ arxiv_papers \in PaperLists
    /\ post = NoPost
    /\ headers = "none"
    /\ file = NoFile
    /\ err = ""
    /\ nonSuccess = FALSE
    /\ irregular = FALSE
    /\ stopSeen = FALSE
    /\ tokenPosts = 0
    /\ submitPosts = 0
    /\ TextIdle

SpecFormat == InitFormat /\ [][Format]_vars

(***************************************************************************)
(* What the properties are stated with: dates as dates, category sets as   *)
(* sets, and the document as the list of papers it renders.                *)
(***************************************************************************)
\* the day an ISO date string names
DayOf(s) ==
    ToOrdinal((s[1] - ZERO) * 1000 + (s[2] - ZERO) * 100 + (s[3] - ZERO) * 10
                  + (s[4] - ZERO),
              (s[6] - ZERO) * 10 + (s[7] - ZERO),
              (s[9] - ZERO) * 10 + (s[10] - ZERO))

\* the day a feed entry was updated
UpdatedDay(x) == DayOf(SubSeq(x.updated, 1, 10))

\* the entry has a category, primary or secondary, of the target set
Intersects(x) ==
    \E c \in target_categories : c = x.primary \/ c \in x.category

\* the titles of the feed entries that match the target set and are updated
\* on one of the days
Wanted(days) ==
    {x.title : x \in {feed[k] : k \in 1..Len(feed)} \cap
                     {y \in {feed[k] : k \in 1..Len(feed)} :
                         Intersects(y) /\ UpdatedDay(y) \in days}}

\* the titles of the records retrieve_arxiv_data has accumulated
Retrieved == {arxiv_papers[k].Title : k \in 1..Len(arxiv_papers)}

\* the title lines of the document, in order
TitleLines == SelectSeq(post.text, LAMBDA l : l.tag = "### ")

\* the dates lines of the document, in order
DatesLines == SelectSeq(post.text, LAMBDA l : l.tag = "**Dates**: ")

\* the titles the document renders
Rendered == {TitleLines[k].val : k \in 1..Len(TitleLines)}

\* the last of the feed's days
LastDay == CHOOSE d \in FeedDays : \A e \in FeedDays : e <= d

\* retrieve_arxiv_data has returned, every request having been answered with
\* the feed's page
Returned == pc = "format" /\ ~irregular

\* the run has ended after markdown_text returned
EndedAfterFormat == pc \in {"done", "aborted"} /\ post # NoPost

\* the file the run is to write
ReportFile ==
    [name |-> <<"arxiv_submissions_", start_date, "_", end_date, ".md">>,
     content |-> post.text]

C5_StopAtPageLastEntry == stopSeen => pc # "parse"

\* C10, as claimed: with every request answered with the feed's page, the
\* pagination loop eventually returns normally.
C10_FetchReturns == <>(pc = "format" \/ irregular)

C7_PublishedDescendingStable ==
    pc = "activate" =>
        /\ Len(DatesLines) = Len(TitleLines)
        /\ \A a, b \in 1..Len(DatesLines) :
              a < b =>
                 /\ DayOf(DatesLines[a].val[1]) >= DayOf(DatesLines[b].val[1])
                 /\ DatesLines[a].val[1] = DatesLines[b].val[1]
                       => TitleLines[a].val < TitleLines[b].val
        /\ \A a \in 1..Len(DatesLines) :
              DatesLines[a].val[1] = arxiv_papers[TitleLines[a].val].Published

\* C7: three papers are rendered; the list held the oldest first, and two of
\* them are published on the same day and updated on different days
C7_Witness ==
    /\ pc = "activate"
    /\ Len(TitleLines) = 3
    /\ DayOf(arxiv_papers[1].Published) < DayOf(arxiv_papers[2].Published)
    /\ arxiv_papers[2].Published = arxiv_papers[3].Published
    /\ DayOf(arxiv_papers[2].Updated) < DayOf(arxiv_papers[3].Updated)

\* the Monday of the week before the week of the day
PreviousMonday(day) == day - Weekday(day) - 7

\* C8, as claimed: with the date flags absent (and the job not running over
\* midnight), a matching paper of the feed is rendered if and only if it is
\* updated on one of the seven days from the Monday to the Sunday of the week
\* before the one the job runs in, and the file name is made of that Monday
\* and that Sunday.
C8_PreviousIsoWeek ==
    (pc = "done" /\ today[1] # 0 /\ today[1] = today[2] /\ ~irregular) =>
        /\ Rendered = Wanted(PreviousMonday(today[1])
                                ..(PreviousMonday(today[1]) + 6))
        /\ file.name = <<"arxiv_submissions_",
                         IsoFormat(PreviousMonday(today[1])), "_",
                         IsoFormat(PreviousMonday(today[1]) + 6), ".md">>

C3_PublisherOnlyIfAllNonEmpty ==
    (/\ pc \in {"authorize", "submit", "write", "done", "aborted"}
     /\ post # NoPost
     /\ \E f \in RedditFields : reddit_data[f] \in {NoneStr, <<>>})
    => tokenPosts = 0 /\ submitPosts = 0 /\ pc \in {"write", "done"}

\* C4, as claimed: after a response with a non-2xx status to a fetch, the
\* token exchange or the post submission, the run does nothing but abort.
C4_NonSuccessIsFatal == [][nonSuccess => pc' = "aborted"]_vars

(***************************************************************************)
(* The text clean-up.                                                      *)
(***************************************************************************)
\* C9, as claimed: the cleaned text has no newline, no two consecutive
\* spaces, no space at either end, and cleaning it again changes nothing.
C9_Normalized ==
    pc = "cleaned" =>
        /\ \A k \in 1..Len(output) : output[k] # NL
        /\ \A k \in 1..(Len(output) - 1) : ~(output[k] = SP /\ output[k + 1] = SP)
        /\ output # <<>> => output[1] # SP /\ output[Len(output)] # SP
        /\ clean_wrapped_text(output) = output

=============================================================================
